---- MODULE Spec2Model ----
(***************************************************************************)
(* Badge generator (src/main.go): the batch scheduler (one producer        *)
(* goroutine, numWorkers worker goroutines, a buffered jobs channel, two   *)
(* sync.Pools of image buffers, the atomic progress counter, the output    *)
(* directory) and the single-job mode, as one state machine of main().     *)
(*                                                                         *)
(* Strings are sequences of one-character strings, so that Sprintf,        *)
(* strings.Split, strconv.Atoi and strings.HasSuffix are computed and not  *)
(* assumed.  Pixels are <<R, G, B, A>> bytes; a canvas is a sequence of    *)
(* CanvasLen pixels (the program's canvas has OutputSize*OutputSize).      *)
(***************************************************************************)
EXTENDS Integers, Sequences, FiniteSets, TLC

VARIABLES
    osArgs,             \* os.Args[1:]                              (main.go:82)
    badgeColors,        \* []BadgeColorData                         (main.go:49)
    badgeIcons,         \* []BadgeIconData                          (main.go:50)
    layer0ColorIndices, \* []int                                    (main.go:51)
    layer1ColorIndices, \* []int                                    (main.go:52)
    existingFiles,      \* map[string]bool, as the set of its keys  (main.go:58)
    disk,               \* the file system: path -> entry
    scanned,            \* the entries of OutputPath when scanOutputDirectory ran
    mainpc,             \* where main() is
    total,              \* total := calculateTotal()                (main.go:90)
    numWorkers,         \* runtime.NumCPU()                         (main.go:96)
    jobs,               \* the buffered channel's queue             (main.go:97)
    closed,             \* whether close(jobs) has run              (main.go:146)
    processedCount,     \* the atomic counter                       (main.go:98)
    prod,               \* the producer goroutine                   (main.go:113)
    ex,                 \* executor -> its goroutine state; 0 is main, 1..N the workers
    rgba,               \* canvas id -> pixels, every canvas not yet collected
    rgbaPool,           \* ids in rgbaPool                          (main.go:54)
    pal,                \* paletted id -> [Palette, Pix]
    palettePool,        \* ids in palettePool                       (main.go:55)
    hist,               \* history: what each operation did (observation only)
    saveChan,           \* two-stage variant: saveChan's queue   (part_000:91)
    saveClosed,         \* whether close(saveChan) has run       (part_000:146)
    saver               \* the saving goroutine                  (part_000:98)

vars == <<osArgs, badgeColors, badgeIcons, layer0ColorIndices, layer1ColorIndices,
          existingFiles, disk, scanned, mainpc, total, numWorkers, jobs, closed,
          processedCount, prod, ex, rgba, rgbaPool, pal, palettePool, hist,
          saveChan, saveClosed, saver>>

(***************************************************************************)
(* Bounds of the model.                                                    *)
(***************************************************************************)
MaxWorkers == 2
CanvasLen == 2
MaxFailures == 1

(***************************************************************************)
(* Strings.                                                                *)
(***************************************************************************)
DigitChars == <<"0", "1", "2", "3", "4", "5", "6", "7", "8", "9">>

RECURSIVE UItoa(_)
UItoa(n) ==
    IF n < 10 THEN <<DigitChars[n + 1]>>
    ELSE UItoa(n \div 10) \o <<DigitChars[(n % 10) + 1]>>

\* the %d verb of fmt.Sprintf
Itoa(n) == IF n < 0 THEN <<"-">> \o UItoa(-n) ELSE UItoa(n)

PngSuffix == <<".", "p", "n", "g">>

HasSuffix(s, suf) ==
    /\ Len(s) >= Len(suf)
    /\ SubSeq(s, Len(s) - Len(suf) + 1, Len(s)) = suf

\* faulty variant of FileName: the indices run together
FileNameNoSep(sIdx, bIdx, c1Idx, c2Idx) ==
    Itoa(sIdx) \o Itoa(bIdx) \o Itoa(c1Idx) \o Itoa(c2Idx) \o PngSuffix

\* fmt.Sprintf("%d-%d-%d-%d.png", sIdx, bIdx, c1Idx, c2Idx)
FileName(sIdx, bIdx, c1Idx, c2Idx) ==
    Itoa(sIdx) \o <<"-">> \o Itoa(bIdx) \o <<"-">> \o Itoa(c1Idx) \o <<"-">>
        \o Itoa(c2Idx) \o PngSuffix

OutputPath == <<"i", "m", "a", "g", "e", "s">>
BadgePng == <<"b", "a", "d", "g", "e">> \o PngSuffix

\* filepath.Join(OutputPath, filename)
JoinOutput(filename) == OutputPath \o <<"/">> \o filename

\* faulty variant of FullPath: badge.png is not told apart
FullPathAlways(filename) == JoinOutput(filename)

\* savePNG's fullPath (main.go:202-205)
FullPath(filename) ==
    IF filename = BadgePng THEN BadgePng ELSE JoinOutput(filename)

RECURSIVE SplitFrom(_, _, _)
SplitFrom(s, sep, cur) ==
    IF s = <<>> THEN <<cur>>
    ELSE IF Head(s) = sep THEN <<cur>> \o SplitFrom(Tail(s), sep, <<>>)
    ELSE SplitFrom(Tail(s), sep, Append(cur, Head(s)))

\* strings.Split(s, sep) for a one-character sep
Split(s, sep) == SplitFrom(s, sep, <<>>)

DigitVal(c) == CHOOSE d \in 0..9 : DigitChars[d + 1] = c
IsDigit(c) == \E d \in 0..9 : DigitChars[d + 1] = c

RECURSIVE UAtoi(_, _)
UAtoi(s, acc) ==
    IF s = <<>> THEN acc ELSE UAtoi(Tail(s), acc * 10 + DigitVal(Head(s)))

\* n, _ := strconv.Atoi(s): the value with the error dropped, which is 0 on a
\* syntax error (the inputs here stay far from the int range)
Atoi(s) ==
    LET signed == s # <<>> /\ Head(s) \in {"+", "-"}
        body   == IF signed THEN Tail(s) ELSE s
    IN  IF body = <<>> \/ \E i \in 1..Len(body) : ~IsDigit(body[i]) THEN 0
        ELSE IF signed /\ Head(s) = "-" THEN -UAtoi(body, 0)
        ELSE UAtoi(body, 0)

(***************************************************************************)
(* Images.  A colour is <<R, G, B, A>>, each a byte.                       *)
(***************************************************************************)
Pixels == 1..CanvasLen
Transparent == <<0, 0, 0, 0>>
NoMask == <<>>           \* a nil *image.Alpha

\* color.RGBA{255, 255, 255, 255} for an index outside the table, else the
\* row's bytes (uint8(c.R) truncates) with alpha 255
getColor(idx) ==
    IF idx < 0 \/ idx >= Len(badgeColors) THEN <<255, 255, 255, 255>>
    ELSE LET c == badgeColors[idx + 1]
         IN  <<c.R % 256, c.G % 256, c.B % 256, 255>>

alphas == <<255, 170, 85, 20>>

\* faulty variant of createSmartPalette: the two colours change places
PaletteSwapped(c1, c2) ==
    <<Transparent>>
        \o [i \in 1..4 |-> <<c2[1], c2[2], c2[3], alphas[i]>>]
        \o [i \in 1..4 |-> <<c1[1], c1[2], c1[3], alphas[i]>>]

\* index 0 transparent, 1..4 c1 at the four alphas, 5..8 c2 (a Go index i
\* is position i + 1 here)
createSmartPalette(c1, c2) ==
    <<Transparent>>
        \o [i \in 1..4 |-> <<c1[1], c1[2], c1[3], alphas[i]>>]
        \o [i \in 1..4 |-> <<c2[1], c2[2], c2[3], alphas[i]>>]

\* j.Palette[i] with Go's index
PaletteAt(palette, i) == palette[i + 1]

\* faulty variant of ClearCanvas: the buffer is used as it comes
KeepCanvas(buf) == buf

\* draw.Draw(dst, dst.Bounds(), image.Transparent, image.Point{}, draw.Src)
ClearCanvas(buf) == [p \in Pixels |-> Transparent]

\* One pixel of image/draw's drawGlyphOver, which DrawMask runs for an RGBA
\* destination, a Uniform source and an Alpha mask under draw.Over:
\*     ma |= ma << 8;  a := (m - sa*ma/m) * 0x101
\*     d[i] = uint8((uint32(d[i])*a + s[i]*ma) / m >> 8)       (m = 0xffff)
\* with s[i] = 0x101 * tint[i].  The common factor 0x101 of numerator and m
\* is cancelled, which keeps every product below 2^31.
BlendOver(d, ma, tint) ==
    IF ma = 0 THEN d
    ELSE LET X == (tint[4] * ma * 257) \div 255
             ch(i) == (((d[i] * (65535 - X) + tint[i] * ma * 257) \div 255)
                          \div 256) % 256
         IN  <<ch(1), ch(2), ch(3), ch(4)>>

\* drawTinted(dst, mask, tint)
drawTinted(dst, mask, tint) ==
    [p \in Pixels |-> BlendOver(dst[p], mask[p], tint)]

\* faulty variant of DrawLayers: the symbol is drawn under the border
DrawSymbolFirst(dst, j) ==
    LET a == IF j.Symbol # NoMask
             THEN drawTinted(dst, j.Symbol, PaletteAt(j.Palette, 1)) ELSE dst
        b == IF j.Border # NoMask
             THEN drawTinted(a, j.Border, PaletteAt(j.Palette, 5)) ELSE a
    IN  IF j.Outline # NoMask
        THEN drawTinted(b, j.Outline, PaletteAt(j.Palette, 1)) ELSE b

\* processJob's three layers: border (Palette[5]), symbol (Palette[1]),
\* outline (Palette[1]), each only if its mask is not nil
DrawLayers(dst, j) ==
    LET a == IF j.Border # NoMask
             THEN drawTinted(dst, j.Border, PaletteAt(j.Palette, 5)) ELSE dst
        b == IF j.Symbol # NoMask
             THEN drawTinted(a, j.Symbol, PaletteAt(j.Palette, 1)) ELSE a
    IN  IF j.Outline # NoMask
        THEN drawTinted(b, j.Outline, PaletteAt(j.Palette, 1)) ELSE b

\* image/draw's sqDiff on two 16-bit channels 0x101*p and 0x101*q:
\* (d*d) >> 2 with d = 257*|p - q|, and 257^2 = 4*16512 + 1
SqDiff(p, q) ==
    LET e == IF p > q THEN p - q ELSE q - p
    IN  16512 * e * e + ((e * e) \div 4)

\* the sum of the four sqDiffs, which can pass 2^31, as <<high, low>> with
\* value high * 65536 + low
Dist(px, c) ==
    LET t(i) == SqDiff(px[i], c[i])
        lo == (t(1) % 65536) + (t(2) % 65536) + (t(3) % 65536) + (t(4) % 65536)
        hi == (t(1) \div 65536) + (t(2) \div 65536) + (t(3) \div 65536)
                  + (t(4) \div 65536)
    IN  <<hi + (lo \div 65536), lo % 65536>>

DistLess(a, b) == a[1] < b[1] \/ (a[1] = b[1] /\ a[2] < b[2])

\* drawPaletted's search: the first palette index of least distance (Go's
\* index); 0 for an empty palette
PaletteIndex(palette, px) ==
    IF Len(palette) = 0 THEN 0
    ELSE LET i == CHOOSE i \in 1..Len(palette) :
                    /\ \A k \in 1..(i - 1) :
                           DistLess(Dist(px, palette[i]), Dist(px, palette[k]))
                    /\ \A k \in (i + 1)..Len(palette) :
                           ~DistLess(Dist(px, palette[k]), Dist(px, palette[i]))
         IN  i - 1

\* savePNG: palImg.Palette = pal, then draw.Draw(palImg, palImg.Bounds(), img,
\* image.Point{}, draw.Src), which sets every pixel of palImg
Quantize(old, img, palette) ==
    [Palette |-> palette,
     Pix |-> [p \in Pixels |-> PaletteIndex(palette, img[p])]]

\* image.NewRGBA and image.NewPaletted(rect, nil): the pools' New
NewRGBA == [p \in Pixels |-> Transparent]
NewPaletted == [Palette |-> <<>>, Pix |-> [p \in Pixels |-> 0]]

\* what processJob(j) computes on a fresh canvas and a fresh paletted buffer
Rendered(j) == Quantize(NewPaletted, DrawLayers(ClearCanvas(NewRGBA), j), j.Palette)

(***************************************************************************)
(* The catalogs, output directories and arguments the model starts from:   *)
(* the state loadIcons leaves (main.go:244-291) and the environment.       *)
(***************************************************************************)
MaskSolid == [p \in Pixels |-> 255]
MaskLeft  == [p \in Pixels |-> IF p = 1 THEN 255 ELSE 0]
MaskSoft  == [p \in Pixels |-> IF p = 1 THEN 0 ELSE 100]

Icon(l, icon, outline) ==
    [Layer |-> l, ScaledIcon |-> icon, ScaledOutline |-> outline]

\* A decoded bitmap (loadRawImage): its bounds and, standing for its pixels,
\* the canvas-sized alpha the scaler makes of them when it has somewhere to
\* draw; NoRaw is the nil bitmap
Raw(dx, dy, alpha) == [Nil |-> FALSE, Dx |-> dx, Dy |-> dy, Alpha |-> alpha]
NoRaw == [Nil |-> TRUE, Dx |-> 0, Dy |-> 0, Alpha |-> NoMask]

\* scale := 1.0; if l == 0 { scale = 0.7 }, as a fraction (main.go:274-277)
ScaleOf(l) == IF l = 0 THEN <<7, 10>> ELSE <<1, 1>>

\* int(float64(n) * scale) for the small n used here
Scaled(n, scale) == (n * scale[1]) \div scale[2]

\* preProcessImage (main.go:217-242): nil only for a nil bitmap.  The scaler
\* draws into rect, and draws nothing when rect is empty (w or h is 0); the
\* alpha channel of the cleared scratch is then copied out.
preProcessImage(src, scale) ==
    IF src.Nil THEN NoMask
    ELSE LET w == Scaled(src.Dx, scale)
             h == Scaled(src.Dy, scale)
         IN  IF w <= 0 \/ h <= 0 THEN [p \in Pixels |-> 0] ELSE src.Alpha

\* one row of badge_icons.csv loaded (main.go:273-289)
LoadIcon(l, rawIcon, rawOutline) ==
    Icon(l, preProcessImage(rawIcon, ScaleOf(l)),
            preProcessImage(rawOutline, ScaleOf(l)))

\* a symbol one pixel wide, a border three by three without outline
TinySymbol == <<LoadIcon(0, Raw(1, 3, MaskSolid), NoRaw),
                LoadIcon(1, Raw(3, 3, MaskLeft), NoRaw)>>

SymA    == Icon(0, MaskSoft, NoMask)
BorderA == Icon(1, MaskLeft, NoMask)
BorderB == Icon(1, MaskSolid, MaskSoft)
OtherA  == Icon(2, MaskSolid, NoMask)
MaskRight == [p \in Pixels |-> IF p = 1 THEN 0 ELSE 255]
\* icons with a bitmap missing: a symbol with and without its icon, borders
\* with and without icon and outline
SomeMissing ==
    <<Icon(0, MaskLeft, NoMask), Icon(0, NoMask, NoMask),
      Icon(1, MaskSolid, MaskRight), Icon(1, MaskSolid, NoMask),
      Icon(1, NoMask, MaskRight), Icon(1, NoMask, NoMask)>>
\* two icons of one shape
SymF    == Icon(0, MaskSolid, NoMask)
BorderF == Icon(1, MaskSolid, NoMask)

\* a row of badge_colors.csv after the header: R, G, B and the layer column
Row(r, g, b, l) == [R |-> r, G |-> g, B |-> b, L |-> l]

Red   == Row(255, 0, 0, 0)
Gold  == Row(300, 200, 10, 0)
Blue  == Row(0, 0, 255, 1)
\* one colour listed four times, twice as primary and twice as secondary
FlatRows == <<Row(9, 9, 9, 0), Row(9, 9, 9, 0), Row(9, 9, 9, 1), Row(9, 9, 9, 1)>>

\* thirteen rows of that colour: rows 1 and 11 are primary, the others secondary
WideRows ==
    [i \in 1..13 |->
        IF i - 1 \in {1, 11} THEN Row(9, 9, 9, 0) ELSE Row(9, 9, 9, 1)]

\* loadIcons' colour loop (main.go:252-263): row i of the file is colour i - 1
LoadColors(rows) ==
    [i \in 1..Len(rows) |-> [R |-> rows[i].R, G |-> rows[i].G, B |-> rows[i].B]]

LoadLayer0(rows) ==
    LET ix == SelectSeq([i \in 1..Len(rows) |-> i], LAMBDA i : rows[i].L = 0)
    IN  [k \in 1..Len(ix) |-> ix[k] - 1]

LoadLayer1(rows) ==
    LET ix == SelectSeq([i \in 1..Len(rows) |-> i], LAMBDA i : rows[i].L # 0)
    IN  [k \in 1..Len(ix) |-> ix[k] - 1]

\* an entry of the output directory
File(name) == [name |-> name, kind |-> "file"]
Dir(name)  == [name |-> name, kind |-> "dir"]

NotesTxt == <<"n", "o", "t", "e", "s", ".", "t", "x", "t">>

NamesOf(icons, rows) ==
    { FileName(s, b, c1, c2) :
        s \in { i - 1 : i \in { k \in 1..Len(icons) : icons[k].Layer = 0 } },
        b \in { i - 1 : i \in { k \in 1..Len(icons) : icons[k].Layer = 1 } },
        c1 \in { i - 1 : i \in { k \in 1..Len(rows) : rows[k].L = 0 } },
        c2 \in { i - 1 : i \in { k \in 1..Len(rows) : rows[k].L # 0 } } }

FilesOf(names) == { File(n) : n \in names }

Scenario(icons, rows, dirs) == [icons |-> icons, rows |-> rows, dirs |-> dirs]

Scenarios ==
    { \* one symbol, one border, 2 x 2 colours: every subset of the four
      \* outputs already there
      Scenario(<<SymF, BorderF>>, FlatRows,
               { FilesOf(d) : d \in SUBSET NamesOf(<<SymF, BorderF>>, FlatRows) }),
      \* the same with a directory in the way of one output and a stray file
      Scenario(<<SymF, BorderF>>, FlatRows,
               { {Dir(FileName(0, 1, 0, 2)), File(NotesTxt),
                  File(FileName(0, 1, 1, 3))} }),
      \* an icon whose layer is neither 0 nor 1
      Scenario(<<SymA, BorderA, OtherA>>, <<Gold, Blue>>,
               { {}, {File(FileName(0, 1, 0, 1))} }),
      \* two borders of different shapes, one with an outline, and two primary
      \* colours: the two outputs missing differ in shape and in palette
      Scenario(<<SymA, BorderB, BorderA>>, <<Red, Gold, Blue>>,
               { {File(FileName(0, 2, 0, 2)), File(FileName(0, 1, 1, 2))} }),
      \* two-digit colour indices; all but two outputs already there
      Scenario(<<SymF, BorderF>>, WideRows,
               { FilesOf(NamesOf(<<SymF, BorderF>>, WideRows)
                    \ {FileName(0, 1, 1, 12), FileName(0, 1, 11, 2)}) }),
      \* a symbol and an icon of layer 2: no quadruple to reach
      Scenario(<<SymA, OtherA>>, <<Red, Blue>>, { {} }),
      \* a symbol bitmap too small to scale
      Scenario(TinySymbol, <<Red, Blue>>, { {} }),
      \* icons with bitmaps missing; all outputs but one already there
      Scenario(SomeMissing, <<Red, Blue>>,
               { FilesOf(NamesOf(SomeMissing, <<Red, Blue>>) \ {FileName(1, 4, 0, 1)}) }),
      \* nothing to combine: no border icon, no secondary colour, no symbol
      \* icon, no primary colour, no icon
      Scenario(<<SymA, SymF>>, <<Red, Blue>>, { {} }),
      Scenario(<<SymA, BorderA>>, <<Red, Gold>>, { {} }),
      Scenario(<<BorderA>>, <<Red, Blue>>, { {File(NotesTxt)} }),
      Scenario(<<SymA, BorderA>>, <<Blue>>, { {} }),
      Scenario(<<>>, <<Red, Blue>>, { {} }) }

\* the argument naming four indices
Arg(s, b, c1Idx, c2Idx) ==
    Itoa(s) \o <<"_">> \o Itoa(b) \o <<"_">> \o Itoa(c1Idx) \o <<"_">> \o Itoa(c2Idx)

\* os.Args[1:] of the runs modelled: none (batch mode) or one argument
ArgLists ==
    { <<Arg(s, b, 0, 1)>> : s \in {0, 1}, b \in 2..5 } \cup
    { <<>>,
      << <<"0", "_", "1", "_", "0", "_", "2">> >>,
      << <<"0", "_", "1", "_", "0">> >>,
      << <<"0", "_", "1", "_", "0", "_", "2", "_", "3">> >>,
      << <<"7", "_", "1", "_", "0", "_", "2">> >>,
      << <<"0", "_", "1", "2", "_", "0", "_", "2">> >>,
      << <<"-", "1", "_", "1", "_", "0", "_", "2">> >>,
      << <<"0", "_", "1", "_", "9", "_", "2">> >>,
      << <<"x", "_", "1", "_", "0", "_", "2">> >>,
      << <<>> >> }

(***************************************************************************)
(* Helpers on the state.                                                   *)
(***************************************************************************)
Cnt(f, k) == IF k \in DOMAIN f THEN f[k] ELSE 0
Bump(f, k) == IF k \in DOMAIN f THEN [f EXCEPT ![k] = @ + 1] ELSE f @@ (k :> 1)
Put(f, k, v) == IF k \in DOMAIN f THEN [f EXCEPT ![k] = v] ELSE f @@ (k :> v)

NoBuf == 0
NoImage == [Palette |-> <<>>, Pix |-> <<>>]
\* a directory entry: what it is, how far its bytes got ("old": there before
\* the run; "empty": created or truncated; "partial": an encode that stopped;
\* "png": a whole image) and, for "png", the image encoded
Entry(kind, state, image) == [kind |-> kind, state |-> state, image |-> image]
NoJob == [Filename |-> <<>>, Palette |-> <<>>, Symbol |-> NoMask,
          Border |-> NoMask, Outline |-> NoMask]
Idle == [pc |-> "idle", job |-> NoJob, dst |-> NoBuf, palImg |-> NoBuf]

Workers == 1..numWorkers
Executors == 0..numWorkers

\* faulty variant of IconsOfLayer: the layer test is left out
IconsUnfiltered(l) == [k \in 1..Len(badgeIcons) |-> k - 1]

\* the Go indices of the icons of a layer, ascending: what the range loops
\* over badgeIcons keep (main.go:121-128)
IconsOfLayer(l) ==
    LET ix == SelectSeq([i \in 1..Len(badgeIcons) |-> i],
                        LAMBDA i : badgeIcons[i].Layer = l)
    IN  [k \in 1..Len(ix) |-> ix[k] - 1]

\* The quadruples the producer's loop nest reaches, in its order (c1Idx
\* outermost, then c2Idx, sIdx, bIdx): main.go:114-128
Visits ==
    LET syms == IconsOfLayer(0)
        bords == IconsOfLayer(1)
        n1 == Len(layer0ColorIndices)
        n2 == Len(layer1ColorIndices)
        ns == Len(syms)
        nb == Len(bords)
    IN  [k \in 1..(n1 * n2 * ns * nb) |->
            LET q == k - 1
            IN  [c1 |-> layer0ColorIndices[(q \div (n2 * ns * nb)) + 1],
                 c2 |-> layer1ColorIndices[((q \div (ns * nb)) % n2) + 1],
                 s  |-> syms[((q \div nb) % ns) + 1],
                 b  |-> bords[(q % nb) + 1]]]

NameOf(v) == FileName(v.s, v.b, v.c1, v.c2)

\* the RenderJob of main.go:135-141
MakeJob(v) ==
    [Filename |-> NameOf(v),
     Palette  |-> createSmartPalette(getColor(v.c1), getColor(v.c2)),
     Symbol   |-> badgeIcons[v.s + 1].ScaledIcon,
     Border   |-> badgeIcons[v.b + 1].ScaledIcon,
     Outline  |-> badgeIcons[v.b + 1].ScaledOutline]

\* calculateTotal (main.go:349-359): an icon whose layer is not 0 is a shape
calculateTotal ==
    LET syms   == Cardinality({ i \in 1..Len(badgeIcons) : badgeIcons[i].Layer = 0 })
        shapes == Cardinality({ i \in 1..Len(badgeIcons) : badgeIcons[i].Layer # 0 })
    IN  syms * shapes * Len(layer0ColorIndices) * Len(layer1ColorIndices)

\* cap(jobs) (main.go:97)
QueueCap == numWorkers * 2

IsOutputEntry(path) ==
    /\ Len(path) > Len(OutputPath) + 1
    /\ SubSeq(path, 1, Len(OutputPath) + 1) = OutputPath \o <<"/">>

EntryName(path) == SubSeq(path, Len(OutputPath) + 2, Len(path))

\* os.ReadDir(OutputPath)
ReadDir == { [name |-> EntryName(p), kind |-> disk[p].kind] :
               p \in { q \in DOMAIN disk : IsOutputEntry(q) } }

\* scanOutputDirectory (main.go:327-337)
ScanEntries(entries) ==
    { e.name : e \in { x \in entries : x.kind # "dir" /\ HasSuffix(x.name, PngSuffix) } }

FreshId(store) == CHOOSE n \in 1..(Cardinality(DOMAIN store) + 1) : n \notin DOMAIN store

\* sync.Pool.Get hands out a pooled buffer (of pooled buffers with the same
\* contents the one of least id stands for all) ...
Pooled(pool, store) ==
    { id \in pool : \A o \in pool : store[o] = store[id] => id <= o }

\* ... or finds nothing and calls New: always when the pool is empty, and at
\* any time otherwise, since the runtime drops pooled buffers at a garbage
\* collection.  The store is left with the buffers still referenced.
Dropped(pool, store) == [id \in DOMAIN store \ pool |-> store[id]]

ReturnPc(w) == IF w = 0 THEN "returned" ELSE "count"

\* What has happened so far.  staleCanvas, stalePaletted: a Get has handed out
\* a pooled buffer holding another image than the one the job then made.
\* SaveJob{} and the saver before it is started (part_000:41-45)
SaveJob0 == [FileName |-> <<>>, Img |-> NoBuf, C1 |-> Transparent, C2 |-> Transparent]
SaverIdle == [pc |-> "idle", job |-> SaveJob0]

Hist0 ==
    [pushed |-> <<>>, skipped |-> <<>>, ran |-> <<>>,
     created |-> <<>>, wrote |-> <<>>, createFailed |-> {}, encodeFailed |-> {},
     failures |-> 0, closes |-> 0, sendOnClosed |-> FALSE, scans |-> 0,
     rgbaGets |-> 0, rgbaPuts |-> 0, palGets |-> 0, palPuts |-> 0,
     staleCanvas |-> FALSE, stalePaletted |-> FALSE,
     outcome |-> "none"]

(***************************************************************************)
(* The state after init() and loadIcons(), before main reads os.Args.      *)
(***************************************************************************)
Init ==
    \E sc \in Scenarios : \E d \in sc.dirs : \E n \in 1..MaxWorkers :
    \E a \in ArgLists :
        /\ osArgs = a
        /\ badgeColors = LoadColors(sc.rows)
        /\ badgeIcons = sc.icons
        /\ layer0ColorIndices = LoadLayer0(sc.rows)
        /\ layer1ColorIndices = LoadLayer1(sc.rows)
        /\ existingFiles = {}
        /\ disk = [p \in { JoinOutput(e.name) : e \in d } |->
                     Entry((CHOOSE e \in d : JoinOutput(e.name) = p).kind,
                           "old", NoImage)]
        /\ scanned = {}
        /\ mainpc = "start"
        /\ total = 0
        /\ numWorkers = n
        /\ jobs = <<>>
        /\ closed = FALSE
        /\ processedCount = 0
        /\ prod = [pc |-> "idle", k |-> 1]
        /\ ex = [w \in 0..n |-> Idle]
        /\ rgba = <<>>
        /\ rgbaPool = {}
        /\ pal = <<>>
        /\ palettePool = {}
        /\ hist = Hist0
        /\ saveChan = <<>>
        /\ saveClosed = FALSE
        /\ saver = SaverIdle

\* the second stage of the two-stage variant, which main.go does not have
pipeVars == <<saveChan, saveClosed, saver>>
catalogVars == <<osArgs, badgeColors, badgeIcons, layer0ColorIndices,
                 layer1ColorIndices, numWorkers>>
poolVars == <<rgba, rgbaPool, pal, palettePool>>
chanVars == <<jobs, closed>>

(***************************************************************************)
(* main (main.go:74-151).                                                  *)
(***************************************************************************)
\* len(os.Args) > 1: runSingleMode (main.go:82-85)
M_Single ==
    /\ mainpc = "start"
    /\ Len(osArgs) > 0
    /\ mainpc' = "single"
    /\ UNCHANGED <<pipeVars, catalogVars, existingFiles, disk, scanned, total, chanVars,
                   processedCount, prod, ex, poolVars, hist>>

\* os.MkdirAll(OutputPath) and scanOutputDirectory() (main.go:87-88)
M_Scan ==
    /\ mainpc = "start"
    /\ Len(osArgs) = 0
    /\ scanned' = ReadDir
    /\ existingFiles' = ScanEntries(ReadDir)
    /\ mainpc' = "scanned"
    /\ hist' = [hist EXCEPT !.scans = @ + 1]
    /\ UNCHANGED <<pipeVars, catalogVars, disk, total, chanVars, processedCount, prod, ex,
                   poolVars>>

\* total := calculateTotal(); if total == 0 { return } (main.go:90-94)
M_Empty ==
    /\ mainpc = "scanned"
    /\ calculateTotal = 0
    /\ total' = calculateTotal
    /\ mainpc' = "returned"
    /\ UNCHANGED <<pipeVars, catalogVars, existingFiles, disk, scanned, chanVars,
                   processedCount, prod, ex, poolVars, hist>>

\* the channel, the workers and the producer are started (main.go:96-147)
M_Spawn ==
    /\ mainpc = "scanned"
    /\ calculateTotal # 0
    /\ total' = calculateTotal
    /\ jobs' = <<>>
    /\ closed' = FALSE
    /\ processedCount' = 0
    /\ ex' = [w \in Executors |-> IF w = 0 THEN ex[w] ELSE [ex[w] EXCEPT !.pc = "recv"]]
    /\ prod' = [pc |-> "loop", k |-> 1]
    /\ mainpc' = "wait"
    /\ UNCHANGED <<pipeVars, catalogVars, existingFiles, disk, scanned, poolVars, hist>>

\* wg.Wait() returns when every worker's function has returned (main.go:149)
M_Done ==
    /\ mainpc = "wait"
    /\ \A w \in Workers : ex[w].pc = "exited"
    /\ mainpc' = "done"
    /\ UNCHANGED <<pipeVars, catalogVars, existingFiles, disk, scanned, total, chanVars,
                   processedCount, prod, ex, poolVars, hist>>

(***************************************************************************)
(* The producer goroutine (main.go:113-147): one step per quadruple.       *)
(***************************************************************************)
\* faulty variant of Exists: nothing is taken for present
SkipNever(fName) == FALSE

\* existingFiles[fName] (main.go:130)
Exists(fName) == fName \in existingFiles

\* atomic.AddInt64(&processedCount, 1); continue (main.go:130-133)
P_Skip ==
    /\ prod.pc = "loop"
    /\ prod.k <= Len(Visits)
    /\ Exists(NameOf(Visits[prod.k]))
    /\ processedCount' = processedCount + 1
    /\ prod' = [prod EXCEPT !.k = @ + 1]
    /\ hist' = [hist EXCEPT !.skipped = Bump(@, NameOf(Visits[prod.k]))]
    /\ UNCHANGED <<pipeVars, catalogVars, existingFiles, disk, scanned, mainpc, total,
                   chanVars, ex, poolVars>>

\* faulty variant of CanSend: an unbounded channel
SendAlways(q) == TRUE

\* a send on a buffered channel goes through when the buffer has room
CanSend(q) == Len(q) < QueueCap

\* jobs <- RenderJob{...} (main.go:135-141); a send on a closed channel panics
P_Send ==
    /\ prod.pc = "loop"
    /\ prod.k <= Len(Visits)
    /\ ~Exists(NameOf(Visits[prod.k]))
    /\ closed \/ CanSend(jobs)
    /\ IF closed
       THEN /\ hist' = [hist EXCEPT !.sendOnClosed = TRUE]
            /\ prod' = [prod EXCEPT !.pc = "panic"]
            /\ jobs' = jobs
       ELSE /\ jobs' = Append(jobs, MakeJob(Visits[prod.k]))
            /\ prod' = [prod EXCEPT !.k = @ + 1]
            /\ hist' = [hist EXCEPT !.pushed = Bump(@, NameOf(Visits[prod.k]))]
    /\ UNCHANGED <<pipeVars, catalogVars, existingFiles, disk, scanned, mainpc, total,
                   closed, processedCount, ex, poolVars>>

\* faulty variant of LoopsDone: the close may come after the first quadruple
CloseEarly == prod.k > 1 \/ Len(Visits) = 0

\* the loops are over
LoopsDone == prod.k > Len(Visits)

\* close(jobs) (main.go:146)
P_Close ==
    /\ prod.pc = "loop"
    /\ LoopsDone
    /\ ~closed
    /\ closed' = TRUE
    /\ prod' = [prod EXCEPT !.pc = "done"]
    /\ hist' = [hist EXCEPT !.closes = @ + 1]
    /\ UNCHANGED <<pipeVars, catalogVars, existingFiles, disk, scanned, mainpc, total,
                   jobs, processedCount, ex, poolVars>>

(***************************************************************************)
(* A worker goroutine (main.go:102-110).                                   *)
(***************************************************************************)
\* for job := range jobs: a job is received
W_Recv(w) ==
    /\ ex[w].pc = "recv"
    /\ jobs # <<>>
    /\ ex' = [ex EXCEPT ![w] = [@ EXCEPT !.pc = "render", !.job = Head(jobs)]]
    /\ jobs' = Tail(jobs)
    /\ UNCHANGED <<pipeVars, catalogVars, existingFiles, disk, scanned, mainpc, total,
                   closed, processedCount, prod, poolVars, hist>>

\* for job := range jobs: the channel is closed and drained, the loop ends
W_Exit(w) ==
    /\ ex[w].pc = "recv"
    /\ jobs = <<>>
    /\ closed
    /\ ex' = [ex EXCEPT ![w] = [@ EXCEPT !.pc = "exited"]]
    /\ UNCHANGED <<pipeVars, catalogVars, existingFiles, disk, scanned, mainpc, total,
                   chanVars, processedCount, prod, poolVars, hist>>

\* curr := atomic.AddInt64(&processedCount, 1) and the progress line
\* (main.go:105-108)
W_Count(w) ==
    /\ ex[w].pc = "count"
    /\ processedCount' = processedCount + 1
    /\ ex' = [ex EXCEPT ![w] = [@ EXCEPT !.pc = "recv"]]
    /\ UNCHANGED <<pipeVars, catalogVars, existingFiles, disk, scanned, mainpc, total,
                   chanVars, prod, poolVars, hist>>

(***************************************************************************)
(* processJob and savePNG (main.go:153-215), run by executor w: a worker,  *)
(* or main itself (w = 0) in single-job mode.                              *)
(***************************************************************************)
\* dst := rgbaPool.Get(); the clear; the three layers (main.go:154-168)
X_Render(w) ==
    /\ ex[w].pc = "render"
    /\ \/ \E id \in Pooled(rgbaPool, rgba) :
            /\ rgba' = [rgba EXCEPT ![id] = DrawLayers(ClearCanvas(@), ex[w].job)]
            /\ rgbaPool' = rgbaPool \ {id}
            /\ ex' = [ex EXCEPT ![w] = [@ EXCEPT !.pc = "quantize", !.dst = id]]
            /\ hist' = [hist EXCEPT !.ran = Bump(@, ex[w].job.Filename),
                                    !.rgbaGets = @ + 1,
                                    !.staleCanvas = @ \/ rgba[id] # rgba'[id]]
       \/ LET live == Dropped(rgbaPool, rgba)
               id == FreshId(live)
           IN  /\ rgba' = live @@ (id :> DrawLayers(ClearCanvas(NewRGBA), ex[w].job))
               /\ rgbaPool' = {}
               /\ ex' = [ex EXCEPT ![w] = [@ EXCEPT !.pc = "quantize", !.dst = id]]
               /\ hist' = [hist EXCEPT !.ran = Bump(@, ex[w].job.Filename),
                                       !.rgbaGets = @ + 1]
    /\ UNCHANGED <<pipeVars, catalogVars, existingFiles, disk, scanned, mainpc, total,
                   chanVars, processedCount, prod, pal, palettePool>>

\* palImg := palettePool.Get(); palImg.Palette = pal; draw.Draw(palImg, ...)
\* (main.go:196-200)
X_Quantize(w) ==
    /\ ex[w].pc = "quantize"
    /\ \/ \E id \in Pooled(palettePool, pal) :
            /\ pal' = [pal EXCEPT ![id] = Quantize(@, rgba[ex[w].dst], ex[w].job.Palette)]
            /\ palettePool' = palettePool \ {id}
            /\ ex' = [ex EXCEPT ![w] = [@ EXCEPT !.pc = "create", !.palImg = id]]
            /\ hist' = [hist EXCEPT !.palGets = @ + 1,
                                    !.stalePaletted = @ \/ pal[id] # pal'[id]]
       \/ LET live == Dropped(palettePool, pal)
               id == FreshId(live)
           IN  /\ pal' = live @@ (id :> Quantize(NewPaletted, rgba[ex[w].dst],
                                                 ex[w].job.Palette))
               /\ palettePool' = {}
               /\ ex' = [ex EXCEPT ![w] = [@ EXCEPT !.pc = "create", !.palImg = id]]
               /\ hist' = [hist EXCEPT !.palGets = @ + 1]
    /\ UNCHANGED <<pipeVars, catalogVars, existingFiles, disk, scanned, mainpc, total,
                   chanVars, processedCount, prod, rgba, rgbaPool>>

IsDirAt(path) == path \in DOMAIN disk /\ disk[path].kind = "dir"

\* os.Create succeeds: the file exists and is empty (main.go:207)
X_CreateOk(w) ==
    /\ ex[w].pc = "create"
    /\ ~IsDirAt(FullPath(ex[w].job.Filename))
    /\ disk' = Put(disk, FullPath(ex[w].job.Filename),
                   Entry("file", "empty", NoImage))
    /\ ex' = [ex EXCEPT ![w] = [@ EXCEPT !.pc = "encode"]]
    /\ hist' = [hist EXCEPT !.created = Bump(@, FullPath(ex[w].job.Filename))]
    /\ UNCHANGED <<pipeVars, catalogVars, existingFiles, scanned, mainpc, total, chanVars,
                   processedCount, prod, poolVars>>

\* faulty variant of PoolPut: the buffer is not put back
LeakCanvas(pool, id) == pool

\* a deferred Pool.Put(buf) (main.go:155, 197)
PoolPut(pool, id) == pool \cup {id}

\* savePNG and processJob return: the deferred Puts run (main.go:197, 155)
Return(w) ==
    /\ palettePool' = PoolPut(palettePool, ex[w].palImg)
    /\ rgbaPool' = PoolPut(rgbaPool, ex[w].dst)
    /\ ex' = [ex EXCEPT ![w] = [Idle EXCEPT !.pc = ReturnPc(w)]]
    /\ UNCHANGED <<rgba, pal>>

\* faulty variant of X_CreateFail: the worker gives up its loop
X_CreateFailDies(w) ==
    /\ ex[w].pc = "create"
    /\ IsDirAt(FullPath(ex[w].job.Filename)) \/ hist.failures < MaxFailures
    /\ palettePool' = PoolPut(palettePool, ex[w].palImg)
    /\ rgbaPool' = PoolPut(rgbaPool, ex[w].dst)
    /\ ex' = [ex EXCEPT ![w] = [Idle EXCEPT !.pc = "exited"]]
    /\ hist' = [hist EXCEPT !.createFailed = @ \cup {ex[w].job.Filename},
                            !.failures = IF IsDirAt(FullPath(ex[w].job.Filename))
                                         THEN @ ELSE @ + 1,
                            !.rgbaPuts = @ + 1, !.palPuts = @ + 1]
    /\ UNCHANGED <<pipeVars, catalogVars, existingFiles, disk, scanned, mainpc, total,
                   chanVars, processedCount, prod, rgba, pal>>

\* os.Create fails: return (main.go:208-210).  It always fails on a
\* directory; otherwise the environment decides.
X_CreateFail(w) ==
    /\ ex[w].pc = "create"
    /\ IsDirAt(FullPath(ex[w].job.Filename)) \/ hist.failures < MaxFailures
    /\ Return(w)
    /\ hist' = [hist EXCEPT !.createFailed = @ \cup {ex[w].job.Filename},
                            !.failures = IF IsDirAt(FullPath(ex[w].job.Filename))
                                         THEN @ ELSE @ + 1,
                            !.rgbaPuts = @ + 1, !.palPuts = @ + 1]
    /\ UNCHANGED <<pipeVars, catalogVars, existingFiles, disk, scanned, mainpc, total,
                   chanVars, processedCount, prod>>

\* enc.Encode(f, palImg) writes the whole image; f.Close() (main.go:211-214)
X_EncodeOk(w) ==
    /\ ex[w].pc = "encode"
    /\ disk' = Put(disk, FullPath(ex[w].job.Filename),
                   Entry("file", "png", pal[ex[w].palImg]))
    /\ Return(w)
    /\ hist' = [hist EXCEPT !.wrote = Bump(@, FullPath(ex[w].job.Filename)),
                            !.rgbaPuts = @ + 1, !.palPuts = @ + 1]
    /\ UNCHANGED <<pipeVars, catalogVars, existingFiles, scanned, mainpc, total, chanVars,
                   processedCount, prod>>

\* enc.Encode returns an error part-way (disk full, I/O error): the error is
\* dropped and the file stays as far as it was written (main.go:214)
X_EncodeFail(w) ==
    /\ ex[w].pc = "encode"
    /\ hist.failures < MaxFailures
    /\ disk' = Put(disk, FullPath(ex[w].job.Filename),
                   Entry("file", "partial", NoImage))
    /\ Return(w)
    /\ hist' = [hist EXCEPT !.encodeFailed = @ \cup {ex[w].job.Filename},
                            !.failures = @ + 1,
                            !.rgbaPuts = @ + 1, !.palPuts = @ + 1]
    /\ UNCHANGED <<pipeVars, catalogVars, existingFiles, scanned, mainpc, total, chanVars,
                   processedCount, prod>>

(***************************************************************************)
(* runSingleMode (main.go:366-388).                                        *)
(***************************************************************************)
\* len(parts) != 4 is the only check (main.go:368)
ArityOk(parts) == Len(parts) = 4

\* badgeIcons[i] is inside the slice
InIcons(i) == 0 <= i /\ i < Len(badgeIcons)

\* the split and the arity check: return without a word (main.go:367-370)
S_BadArity ==
    /\ mainpc = "single"
    /\ ~ArityOk(Split(osArgs[1], "_"))
    /\ mainpc' = "returned"
    /\ hist' = [hist EXCEPT !.outcome = "silent"]
    /\ UNCHANGED <<pipeVars, catalogVars, existingFiles, disk, scanned, total, chanVars,
                   processedCount, prod, ex, poolVars>>

\* badgeIcons[s] or badgeIcons[b] with the index outside the slice: the
\* runtime panics (index out of range) and the process dies (main.go:382-384)
S_Panic ==
    /\ mainpc = "single"
    /\ ArityOk(Split(osArgs[1], "_"))
    /\ LET parts == Split(osArgs[1], "_")
       IN  ~InIcons(Atoi(parts[1])) \/ ~InIcons(Atoi(parts[2]))
    /\ mainpc' = "panic"
    /\ hist' = [hist EXCEPT !.outcome = "panic"]
    /\ UNCHANGED <<pipeVars, catalogVars, existingFiles, disk, scanned, total, chanVars,
                   processedCount, prod, ex, poolVars>>

\* the job is built and processJob(job) is called (main.go:371-386)
S_Job ==
    /\ mainpc = "single"
    /\ ArityOk(Split(osArgs[1], "_"))
    /\ LET parts == Split(osArgs[1], "_")
           s == Atoi(parts[1])
           b == Atoi(parts[2])
           c1Idx == Atoi(parts[3])
           c2Idx == Atoi(parts[4])
       IN  /\ InIcons(s) /\ InIcons(b)
           /\ ex' = [ex EXCEPT ![0] =
                       [pc |-> "render",
                        job |-> [Filename |-> BadgePng,
                                 Palette |-> createSmartPalette(getColor(c1Idx),
                                                                getColor(c2Idx)),
                                 Symbol |-> badgeIcons[s + 1].ScaledIcon,
                                 Border |-> badgeIcons[b + 1].ScaledIcon,
                                 Outline |-> badgeIcons[b + 1].ScaledOutline],
                        dst |-> NoBuf, palImg |-> NoBuf]]
    /\ mainpc' = "singlejob"
    /\ UNCHANGED <<pipeVars, catalogVars, existingFiles, disk, scanned, total, chanVars,
                   processedCount, prod, poolVars, hist>>

\* processJob has returned: fmt.Println("Generated badge.png") (main.go:387)
S_Done ==
    /\ mainpc = "singlejob"
    /\ ex[0].pc = "returned"
    /\ mainpc' = "returned"
    /\ hist' = [hist EXCEPT !.outcome = "generated"]
    /\ UNCHANGED <<pipeVars, catalogVars, existingFiles, disk, scanned, total, chanVars,
                   processedCount, prod, ex, poolVars>>

(***************************************************************************)
(* The program.                                                            *)
(***************************************************************************)
Producer == P_Skip \/ P_Send \/ P_Close

Worker(w) == W_Recv(w) \/ W_Exit(w) \/ W_Count(w)

Job(w) ==
    \/ X_Render(w) \/ X_Quantize(w) \/ X_CreateOk(w) \/ X_CreateFail(w)
    \/ X_EncodeOk(w) \/ X_EncodeFail(w)

Main == M_Single \/ M_Scan \/ M_Empty \/ M_Spawn \/ M_Done

Single == S_BadArity \/ S_Panic \/ S_Job \/ S_Done

Next ==
    \/ Main
    \/ Single
    \/ Producer
    \/ \E w \in Workers : W_Recv(w)
    \/ \E w \in Workers : W_Exit(w)
    \/ \E w \in Workers : W_Count(w)
    \/ \E w \in Executors : X_Render(w)
    \/ \E w \in Executors : X_Quantize(w)
    \/ \E w \in Executors : X_CreateOk(w)
    \/ \E w \in Executors : X_CreateFail(w)
    \/ \E w \in Executors : X_EncodeOk(w)
    \/ \E w \in Executors : X_EncodeFail(w)

Spec == Init /\ [][Next]_vars

\* Go schedules every runnable goroutine, so the program does not stand still
\* while some goroutine can take a step.  This is the weakest fairness there
\* is (fairness to each goroutine implies it); which way os.Create and Encode
\* end is left open.
FairSpec == Spec /\ WF_vars(Next)

(***************************************************************************)
(* Properties.                                                             *)
(***************************************************************************)
RECURSIVE SumOver(_, _)
SumOver(f, keys) ==
    IF keys = {} THEN 0
    ELSE LET k == CHOOSE x \in keys : TRUE
         IN  f[k] + SumOver(f, keys \ {k})

Sum(f) == SumOver(f, DOMAIN f)

Batch == mainpc \in {"wait", "done"}
Ended == mainpc \in {"done", "returned", "panic"}
InJob(w) == ex[w].pc \in {"quantize", "create", "encode"}
VisitNames == { NameOf(Visits[k]) : k \in DOMAIN Visits }
\* the producer holds a job it has built and not yet sent
Pending ==
    /\ prod.pc = "loop"
    /\ prod.k <= Len(Visits)
    /\ NameOf(Visits[prod.k]) \notin existingFiles

\* the channel is closed at most once and only when the loops are over, so
\* after the last send; nothing is sent on a closed channel; a worker leaves
\* its loop only when the channel is closed and empty
C1_Safe ==
    /\ hist.closes <= 1
    /\ closed <=> hist.closes = 1
    /\ closed => prod.pc = "done" /\ prod.k = Len(Visits) + 1
    /\ ~hist.sendOnClosed
    /\ \A w \in Workers : ex[w].pc = "exited" => closed /\ jobs = <<>>

\* C1: a batch run with total > 0, whatever the worker count, the catalog and
\* the files already there, always reaches Done (wg.Wait returns) when the
\* goroutines are scheduled fairly, the channel closed and every worker out
\* of its loop; C1_Safe holds throughout.  A state before Done in which no
\* goroutine can step (a deadlock) would be a behaviour that never reaches
\* Done, so there is none.
C1_Terminates ==
    /\ []C1_Safe
    /\ (mainpc = "wait") ~> (mainpc = "done" /\ closed
                              /\ \A w \in Workers : ex[w].pc = "exited")

C1_Witness ==
    /\ mainpc = "done"
    /\ numWorkers = 2
    /\ Sum(hist.pushed) >= 3
    /\ Sum(hist.skipped) >= 1

\* C2: the quadruples the producer reaches have pairwise distinct file names;
\* a name is pushed at most once and processJob runs for it at most once, and
\* never for a name in existingFiles; no two executions run at once for one
\* name and no output path is created twice; when the run is Done every
\* reached quadruple not in existingFiles was pushed once and run once.
C2_ExactlyOnce ==
    /\ mainpc = "scanned" =>    \* the catalog never changes: once per run
         LET V == Visits
             names == [k \in DOMAIN V |-> NameOf(V[k])]
         IN  \A i, k \in DOMAIN V : i # k => V[i] # V[k] /\ names[i] # names[k]
    /\ Batch =>
         /\ \A n \in DOMAIN hist.pushed : hist.pushed[n] = 1 /\ n \notin existingFiles
         /\ \A n \in DOMAIN hist.ran : hist.ran[n] = 1 /\ Cnt(hist.pushed, n) = 1
         /\ \A p \in DOMAIN hist.created : hist.created[p] = 1
         /\ \A w, v \in Workers :
                w # v /\ ex[w].job # NoJob /\ ex[v].job # NoJob
                    => ex[w].job.Filename # ex[v].job.Filename
    /\ mainpc = "done" =>
         \A n \in VisitNames :
             n \notin existingFiles
                 => Cnt(hist.pushed, n) = 1 /\ Cnt(hist.ran, n) = 1

C2_Witness ==
    /\ mainpc = "done"
    /\ numWorkers = 2
    /\ Len(badgeColors) > 10
    /\ Sum(hist.ran) = 2

\* C3 (the claim as stated): processedCount never passes total, and when the
\* run is Done it equals total, the value of calculateTotal().
C3_CountReachesTotal ==
    Batch => /\ processedCount <= total
             /\ total = calculateTotal
             /\ mainpc = "done" => processedCount = total

\* C4 (the claim as stated): the number of quadruples the producer's loops
\* reach equals calculateTotal(), and both equal #symbols x #borders x
\* #primary colours x #secondary colours.
C4_CountLaw ==
    LET nSym == Cardinality({ i \in 1..Len(badgeIcons) : badgeIcons[i].Layer = 0 })
        nBor == Cardinality({ i \in 1..Len(badgeIcons) : badgeIcons[i].Layer = 1 })
        law  == nSym * nBor * Len(layer0ColorIndices) * Len(layer1ColorIndices)
    IN  /\ mainpc \in {"scanned", "wait", "done"} =>
              Len(Visits) = law /\ calculateTotal = law
        /\ mainpc = "done" => Sum(hist.skipped) + Sum(hist.pushed) = total

(***************************************************************************)
(* The bounded queue.                                                      *)
(***************************************************************************)
Running == { w \in Workers : ex[w].pc \in {"render", "quantize", "create", "encode"} }

\* jobs the producer has built and processJob has not finished
Outstanding ==
    Len(jobs) + Cardinality(Running) + (IF Pending THEN 1 ELSE 0)

C5_Inv ==
    Batch =>
        /\ Len(jobs) <= 2 * numWorkers
        /\ Outstanding <= 2 * numWorkers + numWorkers + 1
        \* no job is dropped: every job sent is queued, running or finished
        /\ Sum(hist.pushed) = Len(jobs) + Cardinality(Running) + hist.rgbaPuts

C5_Step ==
    /\ (Batch /\ Pending /\ Len(jobs) = 2 * numWorkers)
           => prod' = prod /\ hist'.pushed = hist.pushed
    /\ (Batch /\ prod'.k # prod.k) =>
           /\ prod'.k = prod.k + 1
           /\ IF NameOf(Visits[prod.k]) \in existingFiles
              THEN jobs' = jobs
              ELSE jobs' = Append(jobs, MakeJob(Visits[prod.k]))

\* C5: with N workers the channel never holds more than 2N jobs; while it is
\* full the producer stands still on its send (its loop index and the set of
\* jobs sent do not change) and when it moves on, the job it held is at the
\* tail of the channel; so the jobs built and not yet finished are never
\* more than 2N + N + 1.
C5_Backpressure == []C5_Inv /\ [][C5_Step]_vars

C5_Witness ==
    /\ numWorkers = 1
    /\ Len(jobs) = 2
    /\ ex[1].pc = "encode"
    /\ Pending

(***************************************************************************)
(* Files already there.                                                    *)
(***************************************************************************)
Untouched == \A p \in DOMAIN disk : disk[p].state = "old"

\* C6: a file whose name the scan found is never created, truncated or
\* written, its combination is never sent or rendered and is counted once;
\* the combinations rendered are those whose file was absent; a run in
\* which no create failed leaves every output where the next scan finds it,
\* and a run that finds every output sends nothing and writes nothing.
C6_SkipOnExists ==
    Batch =>
        /\ existingFiles = ScanEntries(scanned)
        /\ \A n \in existingFiles :
               /\ disk[JoinOutput(n)] = Entry("file", "old", NoImage)
               /\ JoinOutput(n) \notin DOMAIN hist.created \cup DOMAIN hist.wrote
               /\ n \notin DOMAIN hist.pushed \cup DOMAIN hist.ran
               /\ Cnt(hist.skipped, n) <= 1
        /\ DOMAIN hist.skipped \subseteq existingFiles
        /\ DOMAIN hist.ran \cap existingFiles = {}
        /\ mainpc = "done" =>
               LET names == VisitNames
               IN  /\ \A n \in names \cap existingFiles : Cnt(hist.skipped, n) = 1
                   /\ DOMAIN hist.skipped = names \cap existingFiles
                   /\ DOMAIN hist.ran = names \ existingFiles
                   /\ processedCount = Sum(hist.skipped) + Sum(hist.ran)
                   /\ hist.createFailed = {} => names \subseteq ScanEntries(ReadDir)
                   /\ names \subseteq existingFiles =>
                          /\ hist.pushed = <<>> /\ hist.created = <<>>
                          /\ hist.wrote = <<>>
                          /\ Untouched /\ ReadDir = scanned

C6_Witness ==
    /\ mainpc = "done"
    /\ numWorkers = 2
    /\ Cardinality(existingFiles) = 2
    /\ Sum(hist.skipped) = 2
    /\ Sum(hist.wrote) = 2

(***************************************************************************)
(* The pooled buffers.                                                     *)
(***************************************************************************)
HeldCanvas == { ex[w].dst : w \in { v \in Executors : ex[v].dst # NoBuf } }
HeldPaletted == { ex[w].palImg : w \in { v \in Executors : ex[v].palImg # NoBuf } }

C7_Inv ==
    /\ \A w, v \in Executors :
           w # v =>
               /\ ex[w].dst # NoBuf => ex[w].dst # ex[v].dst
               /\ ex[w].palImg # NoBuf => ex[w].palImg # ex[v].palImg
    /\ \A w \in Executors :
           /\ ex[w].dst # NoBuf <=> ex[w].pc \in {"quantize", "create", "encode"}
           /\ ex[w].palImg # NoBuf <=> ex[w].pc \in {"create", "encode"}
    /\ rgbaPool \cap HeldCanvas = {}
    /\ palettePool \cap HeldPaletted = {}
    /\ DOMAIN rgba = rgbaPool \cup HeldCanvas
    /\ DOMAIN pal = palettePool \cup HeldPaletted
    /\ hist.rgbaGets - hist.rgbaPuts = Cardinality(HeldCanvas)
    /\ hist.palGets - hist.palPuts = Cardinality(HeldPaletted)
    /\ Cardinality(HeldCanvas) <= numWorkers
    /\ Cardinality(HeldPaletted) <= numWorkers

\* a buffer is written only in the step that hands it to an execution, and a
\* buffer an execution lets go of is in its pool
C7_Step ==
    /\ \A id \in DOMAIN rgba' :
           (id \notin DOMAIN rgba \/ rgba'[id] # rgba[id])
               => \E w \in Executors : ex[w].dst = NoBuf /\ ex'[w].dst = id
    /\ \A id \in DOMAIN pal' :
           (id \notin DOMAIN pal \/ pal'[id] # pal[id])
               => \E w \in Executors : ex[w].palImg = NoBuf /\ ex'[w].palImg = id
    /\ \A w \in Executors :
           /\ (ex[w].dst # NoBuf /\ ex'[w].dst # ex[w].dst)
                  => ex'[w].dst = NoBuf /\ ex[w].dst \in rgbaPool'
           /\ (ex[w].palImg # NoBuf /\ ex'[w].palImg # ex[w].palImg)
                  => ex'[w].palImg = NoBuf /\ ex[w].palImg \in palettePool'

\* C7: a canvas and a paletted buffer are each held by at most one execution
\* and are never in the pool while held; every buffer is either held or back
\* in its pool, on the os.Create failure path too, each Get being matched by
\* one Put; a buffer changes only while held; and no more canvases are out
\* than there are workers.
C7_CanvasOwnership == []C7_Inv /\ [][C7_Step]_vars

C7_Witness ==
    /\ numWorkers = 2
    /\ ex[1].pc = "encode"
    /\ ex[2].pc = "create"
    /\ hist.createFailed # {}
    /\ hist.rgbaPuts >= 2

(***************************************************************************)
(* What a job makes.                                                       *)
(***************************************************************************)
\* C8: whichever executor runs a job, in whatever order, and whatever the
\* pooled canvas and paletted buffer handed to it held before (fresh buffers
\* included), the canvas after the layers, the paletted image with its
\* palette and the image encoded into the job's file are those processJob
\* makes of the job on fresh buffers.
C8_Deterministic ==
    /\ \A w \in Executors :
           /\ ex[w].pc \in {"quantize", "create", "encode"}
                  => rgba[ex[w].dst] = DrawLayers(ClearCanvas(NewRGBA), ex[w].job)
           /\ ex[w].pc \in {"create", "encode"}
                  => pal[ex[w].palImg] = Rendered(ex[w].job)
    /\ Batch =>
           \A k \in DOMAIN Visits :
               LET path == JoinOutput(NameOf(Visits[k]))
               IN  (path \in DOMAIN disk /\ disk[path].state = "png")
                       => disk[path].image = Rendered(MakeJob(Visits[k]))

C8_Witness ==
    /\ numWorkers = 1
    /\ ex[1].pc = "encode"
    /\ Sum(hist.ran) = 2
    /\ hist.staleCanvas
    /\ hist.stalePaletted

(***************************************************************************)
(* Single-job mode.                                                        *)
(***************************************************************************)
InColors(i) == 0 <= i /\ i < Len(badgeColors)

\* the argument is not four fields, or an index is outside its table
ArgInvalid ==
    LET parts == Split(osArgs[1], "_")
    IN  \/ Len(parts) # 4
        \/ ~InIcons(Atoi(parts[1])) \/ ~InIcons(Atoi(parts[2]))
        \/ ~InColors(Atoi(parts[3])) \/ ~InColors(Atoi(parts[4]))

\* C9 (the claim as stated, less the wording of the message): in single-job
\* mode an argument that is not four fields, or has an index outside its
\* table, is turned down: processJob is never run for it, no file is created
\* or written and no slice is indexed out of bounds.
C9_InvalidIsUsageError ==
    (Len(osArgs) > 0 /\ ArgInvalid) =>
        /\ mainpc # "panic"
        /\ \A w \in Executors : ex[w].pc = "idle"
        /\ FullPath(BadgePng) \notin DOMAIN disk
        /\ hist.outcome # "generated"

(***************************************************************************)
(* Failing writes.                                                         *)
(***************************************************************************)
C10_Inv ==
    mainpc = "done" =>
        \A k \in DOMAIN Visits :
            LET n == NameOf(Visits[k])
            IN  n \notin existingFiles =>
                    /\ Cnt(hist.ran, n) = 1
                    /\ n \notin hist.createFailed \cup hist.encodeFailed =>
                           /\ JoinOutput(n) \in DOMAIN disk
                           /\ disk[JoinOutput(n)]
                                  = Entry("file", "png", Rendered(MakeJob(Visits[k])))

\* a worker whose os.Create failed has returned its buffers, has changed no
\* file and counts the job; after the count it is back at the receive
C10_Step ==
    \A w \in Workers :
        /\ (ex[w].pc = "create" /\ ex'[w].pc \notin {"create", "encode"})
               => /\ ex'[w].pc = "count"
                  /\ ex[w].dst \in rgbaPool'
                  /\ ex[w].palImg \in palettePool'
                  /\ disk' = disk
                  /\ ex[w].job.Filename \in hist'.createFailed
        /\ (ex[w].pc = "count" /\ ex'[w].pc # "count") => ex'[w].pc = "recv"

\* C10: when os.Create fails for some jobs, the worker returns both buffers,
\* changes no file and goes back to the receive; the run still reaches Done,
\* and then every job that did not fail has run once and its file holds the
\* image processJob makes of it.
C10_FailureContained ==
    /\ []C10_Inv
    /\ [][C10_Step]_vars
    /\ (Batch /\ hist.createFailed # {}) ~> (mainpc = "done")

C10_Witness ==
    /\ mainpc = "done"
    /\ numWorkers = 1
    /\ Cardinality(hist.createFailed) = 2
    /\ Sum(hist.wrote) >= 1

(***************************************************************************)
(* Nothing to combine.                                                     *)
(***************************************************************************)
\* a factor of the combination space is zero
EmptySpace ==
    \/ \A i \in 1..Len(badgeIcons) : badgeIcons[i].Layer # 0
    \/ \A i \in 1..Len(badgeIcons) : badgeIcons[i].Layer # 1
    \/ layer0ColorIndices = <<>>
    \/ layer1ColorIndices = <<>>

C11_Inv ==
    (Len(osArgs) = 0 /\ EmptySpace) =>
        /\ hist.pushed = <<>> /\ jobs = <<>>
        /\ hist.ran = <<>> /\ hist.rgbaGets = 0 /\ hist.palGets = 0
        /\ hist.created = <<>> /\ hist.wrote = <<>>
        /\ Untouched
        /\ \A w \in Executors : ex[w].pc \in {"idle", "recv", "exited"}
        /\ mainpc # "panic" /\ prod.pc # "panic"

\* C11: a batch run over a catalog with no symbol icon, no border icon, no
\* primary colour or no secondary colour sends no job, never runs
\* processJob, creates and writes no file, and main returns: at once when
\* calculateTotal() is 0, and otherwise when the workers have found the
\* channel closed and empty.
C11_EmptySpace ==
    /\ []C11_Inv
    /\ (Len(osArgs) = 0 /\ EmptySpace) ~> (mainpc \in {"returned", "done"})

C11_Witness ==
    /\ Len(osArgs) = 0
    /\ mainpc = "returned"
    /\ total = 0
    /\ layer0ColorIndices = <<>>
    /\ badgeIcons # <<>>

(***************************************************************************)
(* Single-job mode with a good argument.                                   *)
(***************************************************************************)
\* the RenderJob runSingleMode builds from its argument (main.go:371-385)
SingleJob ==
    LET parts == Split(osArgs[1], "_")
    IN  [Filename |-> BadgePng,
         Palette  |-> createSmartPalette(getColor(Atoi(parts[3])),
                                         getColor(Atoi(parts[4]))),
         Symbol   |-> badgeIcons[Atoi(parts[1]) + 1].ScaledIcon,
         Border   |-> badgeIcons[Atoi(parts[2]) + 1].ScaledIcon,
         Outline  |-> badgeIcons[Atoi(parts[2]) + 1].ScaledOutline]

\* every entry of the output directory is as it was before the run
OutputDirUntouched ==
    \A p \in DOMAIN disk : IsOutputEntry(p) => disk[p].state = "old"

\* C12: in single-job mode with four indices inside their tables one job, the
\* one built from the argument, is run once and by main itself; no worker
\* and no producer is started, nothing is sent, the output directory is not
\* scanned and nothing in it changes; when os.Create and the encoder do not
\* fail, main returns with badge.png in the working directory holding the
\* job's image, and no other file is created.  A batch run never creates
\* badge.png.
C12_SingleWritesBadge ==
    /\ (Len(osArgs) > 0 /\ ~ArgInvalid) =>
           /\ mainpc \in {"start", "single", "singlejob", "returned"}
           /\ hist.scans = 0 /\ scanned = {} /\ existingFiles = {}
           /\ \A w \in Workers : ex[w] = Idle
           /\ prod.pc = "idle" /\ jobs = <<>> /\ ~closed /\ hist.pushed = <<>>
           /\ processedCount = 0
           /\ ex[0].job \in {NoJob, SingleJob}
           /\ DOMAIN hist.ran \subseteq {BadgePng} /\ Cnt(hist.ran, BadgePng) <= 1
           /\ DOMAIN hist.created \subseteq {BadgePng}
           /\ OutputDirUntouched
           /\ JoinOutput(BadgePng) \notin DOMAIN disk
           /\ mainpc = "returned" =>
                  /\ Cnt(hist.ran, BadgePng) = 1
                  /\ hist.outcome = "generated"
                  /\ (hist.createFailed = {} /\ hist.encodeFailed = {}) =>
                         /\ BadgePng \in DOMAIN disk
                         /\ disk[BadgePng] = Entry("file", "png", Rendered(SingleJob))
                         /\ Sum(hist.wrote) = 1
    /\ Len(osArgs) = 0 =>
           /\ BadgePng \notin DOMAIN disk
           /\ BadgePng \notin DOMAIN hist.created
           /\ ex[0] = Idle

C12_Witness ==
    /\ Len(osArgs) > 0
    /\ mainpc = "returned"
    /\ BadgePng \in DOMAIN disk
    /\ disk[BadgePng].state = "png"
    /\ \E p \in DOMAIN disk : IsOutputEntry(p)
    /\ numWorkers = 2

(***************************************************************************)
(* The palette.                                                            *)
(***************************************************************************)
\* bytes a colour channel is drawn from in the check of createSmartPalette
SampleBytes == {0, 44, 255}
SampleColors == { <<r, g, b, 255>> : r \in SampleBytes, g \in SampleBytes, b \in SampleBytes }

\* palette is the palette createSmartPalette owes to c1 and c2
PaletteShape(palette, c1, c2) ==
    /\ Len(palette) = 9
    /\ PaletteAt(palette, 0) = <<0, 0, 0, 0>>
    /\ \A i \in 1..4 :
           /\ SubSeq(PaletteAt(palette, i), 1, 3) = SubSeq(c1, 1, 3)
           /\ SubSeq(PaletteAt(palette, i + 4), 1, 3) = SubSeq(c2, 1, 3)
    /\ PaletteAt(palette, 1)[4] = 255
    /\ PaletteAt(palette, 5)[4] = 255

\* the jobs there are: queued, or held by an executor
JobsAbout ==
    { jobs[i] : i \in DOMAIN jobs }
        \cup { ex[w].job : w \in { v \in Executors : ex[v].job # NoJob } }

\* a paletted image is made of indices into a nine-entry palette
Indexed(img) ==
    /\ Len(img.Palette) = 9
    /\ \A p \in Pixels : img.Pix[p] \in 0..8

\* C13: createSmartPalette(c1, c2) has nine entries, entry 0 transparent,
\* entries 1..4 with c1's R, G, B and entries 5..8 with c2's, entries 1 and 5
\* opaque; so the entries 1 and 5 processJob reads are there in every job's
\* palette; and every pixel of every paletted image made and of every image
\* encoded is an index 0..8 into the job's palette.
C13_Palette ==
    /\ mainpc \in {"scanned", "single"} =>
           /\ \A c1, c2 \in SampleColors :
                  PaletteShape(createSmartPalette(c1, c2), c1, c2)
           /\ \A i, k \in (0 - 1)..Len(badgeColors) :
                  PaletteShape(createSmartPalette(getColor(i), getColor(k)),
                               getColor(i), getColor(k))
    /\ \A j \in JobsAbout :
           /\ Len(j.Palette) = 9
           /\ PaletteAt(j.Palette, 0) = <<0, 0, 0, 0>>
           /\ PaletteAt(j.Palette, 1)[4] = 255 /\ PaletteAt(j.Palette, 5)[4] = 255
           /\ \A i \in 1..3 :
                  /\ SubSeq(PaletteAt(j.Palette, i + 1), 1, 3)
                         = SubSeq(PaletteAt(j.Palette, 1), 1, 3)
                  /\ SubSeq(PaletteAt(j.Palette, i + 5), 1, 3)
                         = SubSeq(PaletteAt(j.Palette, 5), 1, 3)
    /\ \A w \in Executors :
           ex[w].pc \in {"create", "encode"} =>
               /\ Indexed(pal[ex[w].palImg])
               /\ pal[ex[w].palImg].Palette = ex[w].job.Palette
    /\ \A path \in DOMAIN disk :
           disk[path].state = "png" => Indexed(disk[path].image)

C13_Witness ==
    \E w \in Workers :
        /\ ex[w].pc = "encode"
        /\ PaletteAt(ex[w].job.Palette, 1) # PaletteAt(ex[w].job.Palette, 5)
        /\ \E p \in Pixels : pal[ex[w].palImg].Pix[p] = 5

(***************************************************************************)
(* The layers.                                                             *)
(***************************************************************************)
\* masks that cover a pixel wholly or not at all
BinaryMasks == [Pixels -> {0, 255}]

Covers(mask, p) == mask # NoMask /\ mask[p] = 255

IsBinary(mask) == mask = NoMask \/ \A p \in Pixels : mask[p] \in {0, 255}

\* what the layers of j must leave at pixel p of a transparent canvas
LayeredPixel(j, p) ==
    IF Covers(j.Symbol, p) \/ Covers(j.Outline, p) THEN PaletteAt(j.Palette, 1)
    ELSE IF Covers(j.Border, p) THEN PaletteAt(j.Palette, 5)
    ELSE Transparent

Layered(j) == [p \in Pixels |-> LayeredPixel(j, p)]

BinaryJob(j) == IsBinary(j.Symbol) /\ IsBinary(j.Border) /\ IsBinary(j.Outline)

\* C14: processJob draws the border in colour 2, then the symbol in colour 1,
\* then the outline in colour 1, each only if its mask is there: for masks of
\* coverage 0 or 255, present or absent in every combination, the canvas
\* pixel is colour 1 where the symbol or the outline covers it, else colour 2
\* where the border covers it, else transparent; and a job with masks absent
\* runs like any other: the canvas it hands to savePNG is that one, and when
\* os.Create and the encoder do not fail its file holds the image.
C14_LayerOrder ==
    /\ mainpc \in {"scanned", "single"} =>
           \A sym, bor, out \in BinaryMasks \cup {NoMask} :
               LET j == [Filename |-> BadgePng,
                         Palette |-> createSmartPalette(<<255, 0, 44, 255>>,
                                                        <<0, 44, 255, 255>>),
                         Symbol |-> sym, Border |-> bor, Outline |-> out]
               IN  DrawLayers(NewRGBA, j) = Layered(j)
    /\ \A w \in Executors :
           (ex[w].pc \in {"quantize", "create", "encode"} /\ BinaryJob(ex[w].job))
               => rgba[ex[w].dst] = Layered(ex[w].job)
    /\ (Len(osArgs) > 0 /\ ~ArgInvalid /\ mainpc = "returned"
            /\ hist.createFailed = {} /\ hist.encodeFailed = {}) =>
           /\ BadgePng \in DOMAIN disk
           /\ disk[BadgePng].state = "png"
           /\ BinaryJob(SingleJob) =>
                  disk[BadgePng].image
                      = Quantize(NewPaletted, Layered(SingleJob), SingleJob.Palette)

C14_Witness ==
    /\ Len(osArgs) > 0
    /\ mainpc = "returned"
    /\ BadgePng \in DOMAIN disk
    /\ disk[BadgePng].state = "png"
    /\ SingleJob.Symbol = NoMask
    /\ SingleJob.Border = NoMask
    /\ SingleJob.Outline = MaskRight

(***************************************************************************)
(* Alpha buckets.                                                          *)
(***************************************************************************)
\* the k in 1..4 whose alphas[k] is nearest to a
NearestBucket(a) ==
    LET gap(k) == IF alphas[k] > a THEN alphas[k] - a ELSE a - alphas[k]
    IN  CHOOSE k \in 1..4 : \A o \in 1..4 : gap(k) <= gap(o)

\* the canvas pixel drawTinted leaves where a transparent canvas is covered
\* with coverage a, and the palette index savePNG gives it
TintedIndex(palette, tint, a) ==
    PaletteIndex(palette, BlendOver(Transparent, a, tint))

\* C15 (the claim as stated): for a primary and a secondary colour of the
\* catalog that differ, a pixel drawn in
\* colour 1 with coverage a in 1..255 on a transparent canvas gets the index
\* in 1..4 whose alpha is nearest to a, a pixel drawn in colour 2 gets the
\* index in 5..8 whose alpha is nearest to a, and a transparent pixel gets
\* index 0.
C15_AlphaBuckets ==
    mainpc \in {"scanned", "single"} =>
        \A i \in { layer0ColorIndices[n] : n \in DOMAIN layer0ColorIndices },
           k \in { layer1ColorIndices[n] : n \in DOMAIN layer1ColorIndices } :
            LET palette == createSmartPalette(getColor(i), getColor(k))
            IN  getColor(i) # getColor(k) =>
                /\ PaletteIndex(palette, Transparent) = 0
                /\ \A a \in 1..255 :
                       /\ TintedIndex(palette, PaletteAt(palette, 1), a)
                              = NearestBucket(a)
                       /\ TintedIndex(palette, PaletteAt(palette, 5), a)
                              = NearestBucket(a) + 4

(***************************************************************************)
(* The preprocessor.                                                       *)
(***************************************************************************)
\* bitmaps up to three pixels a side, and the nil bitmap
SampleRaws ==
    {NoRaw} \cup { Raw(dx, dy, MaskSolid) : dx \in 0..3, dy \in 0..3 }

\* C16 (the claim as stated): preProcessImage gives nil when the bitmap is
\* nil and when the scaled width or the scaled height is not positive, and
\* in every other case a mask of the size of the canvas; checked once the
\* catalogs are loaded.
C16_PreprocessNil ==
    mainpc \in {"scanned", "single"} =>
    \A src \in SampleRaws : \A l \in {0, 1} :
        LET mask == preProcessImage(src, ScaleOf(l))
            none == \/ src.Nil
                    \/ Scaled(src.Dx, ScaleOf(l)) <= 0
                    \/ Scaled(src.Dy, ScaleOf(l)) <= 0
        IN  IF none THEN mask = NoMask
            ELSE mask # NoMask /\ DOMAIN mask = Pixels

(***************************************************************************)
(* The two-stage variant (src/unnamed/part_000): render workers hand their *)
(* canvases over saveChan to one saving goroutine.  It shares the catalogs,*)
(* jobs, closed, processedCount, prod, ex, rgba, rgbaPool and disk with    *)
(* the model above; it has no scan, no palette pool and no executor 0.     *)
(***************************************************************************)
\* make(chan RenderJob, 100) and make(chan SaveJob, 100) (part_000:90-91),
\* with the capacity cut down to what the catalogs here can fill
ChanCap == 2

\* preScaleSafe (part_000:174-195): nil for a name that is empty or unknown,
\* else a square of int(OutputSize * scale) pixels a side, here a row of so
\* many pixels, all of the colour px of the bitmap
preScaleSafe(px, scale) ==
    IF px = NoMask THEN NoMask
    ELSE [p \in 1..((CanvasLen * scale[1]) \div scale[2]) |-> px]

\* one row of badge_icons.csv loaded (part_000:230-240)
ScaledRow(l, iconPx, outlinePx) ==
    [Layer |-> l,
     ScaledIcon |-> preScaleSafe(iconPx, IF l = 0 THEN <<65, 100>> ELSE <<1, 1>>),
     ScaledOutline |-> preScaleSafe(outlinePx, <<1, 1>>)]

\* drawFast (part_000:264-282): where the bitmap is not transparent the
\* canvas takes its colour times the tint and its alpha
drawFast(dst, src, tint, offset) ==
    [p \in Pixels |->
        LET x == p - offset
        IN  IF x \in DOMAIN src /\ src[x][4] # 0
            THEN <<((src[x][1] * tint[1]) \div 255) % 256,
                   ((src[x][2] * tint[2]) \div 255) % 256,
                   ((src[x][3] * tint[3]) \div 255) % 256,
                   src[x][4]>>
            ELSE dst[p]]

\* renderFast after its Get (part_000:246-261)
renderFast(dst, j) ==
    LET c1 == getColor(j.C1Idx)
        c2 == getColor(j.C2Idx)
        symbol == badgeIcons[j.SIdx + 1]
        border == badgeIcons[j.BIdx + 1]
        z == [p \in Pixels |-> Transparent]
        a == IF border.ScaledIcon # NoMask
             THEN drawFast(z, border.ScaledIcon, c2, 0) ELSE z
        b == IF symbol.ScaledIcon # NoMask
             THEN drawFast(a, symbol.ScaledIcon, c1,
                           (CanvasLen - Len(symbol.ScaledIcon)) \div 2)
             ELSE a
    IN  IF border.ScaledOutline # NoMask
        THEN drawFast(b, border.ScaledOutline, c1, 0) ELSE b

\* the image saveWithMinimalPalette encodes (part_000:153-160)
saveWithMinimalPalette(img, c1, c2) ==
    Quantize(NewPaletted, img, <<Transparent, c1, c2>>)

\* the jobs of the producer's loop nest in its order, sIdx outermost
\* (part_000:127-141)
RenderJobs ==
    LET syms == IconsOfLayer(0)
        bords == IconsOfLayer(1)
        n1 == Len(layer0ColorIndices)
        n2 == Len(layer1ColorIndices)
        nb == Len(bords)
    IN  [k \in 1..(Len(syms) * nb * n1 * n2) |->
            LET q == k - 1
            IN  [SIdx  |-> syms[(q \div (nb * n1 * n2)) + 1],
                 BIdx  |-> bords[((q \div (n1 * n2)) % nb) + 1],
                 C1Idx |-> layer0ColorIndices[((q \div n2) % n1) + 1],
                 C2Idx |-> layer1ColorIndices[(q % n2) + 1]]]

\* fname (part_000:115)
FName(j) == FileName(j.SIdx, j.BIdx, j.C1Idx, j.C2Idx)

\* calculateTotal (part_000:303-314)
calculateTotalByLayer ==
    LET syms   == Cardinality({ i \in 1..Len(badgeIcons) : badgeIcons[i].Layer = 0 })
        shapes == Cardinality({ i \in 1..Len(badgeIcons) : badgeIcons[i].Layer = 1 })
    IN  syms * shapes * Len(layer0ColorIndices) * Len(layer1ColorIndices)

\* os.Stat(path) returns no error (part_000:116)
Stat(path) == path \in DOMAIN disk

White == <<255, 255, 255, 255>>
Grey  == <<128, 128, 128, 128>>

\* the catalogs and output directories the variant starts from
PipeScenarios ==
    { \* one job, its output there or not, or a directory of its name
      Scenario(<<ScaledRow(0, White, NoMask), ScaledRow(1, White, NoMask)>>,
               <<Red, Blue>>,
               { {}, {File(FileName(0, 1, 0, 1))}, {Dir(FileName(0, 1, 0, 1))} }),
      \* two jobs that differ in border and colours, one border with an
      \* outline, one without a bitmap; an icon of another layer between
      Scenario(<<ScaledRow(0, Grey, NoMask), ScaledRow(2, White, NoMask),
                 ScaledRow(1, White, Grey), ScaledRow(1, NoMask, NoMask)>>,
               <<Red, Blue>>,
               { {}, {File(NotesTxt)} }),
      \* three jobs of one look, more than a channel holds
      Scenario(<<ScaledRow(0, White, NoMask), ScaledRow(1, White, NoMask)>>,
               <<Row(9, 9, 9, 0), Row(9, 9, 9, 0), Row(9, 9, 9, 0),
                 Row(9, 9, 9, 1)>>,
               { {}, {File(FileName(0, 1, 1, 3))} }),
      \* no border: nothing to do
      Scenario(<<ScaledRow(0, White, NoMask)>>, <<Red, Blue>>, { {} }) }

RenderJob0 == [SIdx |-> 0, BIdx |-> 0, C1Idx |-> 0, C2Idx |-> 0]
RenderIdle == [pc |-> "idle", job |-> RenderJob0, dst |-> NoBuf]

PipeHist0 ==
    [sends |-> 0, recvs |-> 0, puts |-> 0, gets |-> 0, failures |-> 0,
     sent |-> <<>>, saved |-> <<>>, skipped |-> <<>>]

\* the state after init() and loadAndPreScale(), with no argument given
PipeInit ==
    \E sc \in PipeScenarios : \E d \in sc.dirs : \E n \in 1..MaxWorkers :
        /\ osArgs = <<>>
        /\ badgeColors = LoadColors(sc.rows)
        /\ badgeIcons = sc.icons
        /\ layer0ColorIndices = LoadLayer0(sc.rows)
        /\ layer1ColorIndices = LoadLayer1(sc.rows)
        /\ existingFiles = {}
        /\ disk = [p \in { JoinOutput(e.name) : e \in d } |->
                     Entry((CHOOSE e \in d : JoinOutput(e.name) = p).kind,
                           "old", NoImage)]
        /\ scanned = {}
        /\ mainpc = "start"
        /\ total = 0
        /\ numWorkers = n
        /\ jobs = <<>>
        /\ closed = FALSE
        /\ processedCount = 0
        /\ prod = [pc |-> "idle", k |-> 1]
        /\ ex = [w \in 1..n |-> RenderIdle]
        /\ rgba = <<>>
        /\ rgbaPool = {}
        /\ pal = <<>>
        /\ palettePool = {}
        /\ hist = PipeHist0
        /\ saveChan = <<>>
        /\ saveClosed = FALSE
        /\ saver = SaverIdle

unusedVars == <<catalogVars, existingFiles, scanned, pal, palettePool>>

\* total := calculateTotal(); if total == 0 { return } (part_000:78-83)
T_Empty ==
    /\ mainpc = "start"
    /\ calculateTotalByLayer = 0
    /\ total' = calculateTotalByLayer
    /\ mainpc' = "returned"
    /\ UNCHANGED <<unusedVars, pipeVars, chanVars, disk, processedCount, prod,
                   ex, rgba, rgbaPool, hist>>

\* the channels are made, the saver, the render workers and the producer are
\* started; main goes to renderWG.Wait() (part_000:85-145)
T_Spawn ==
    /\ mainpc = "start"
    /\ calculateTotalByLayer # 0
    /\ total' = calculateTotalByLayer
    /\ mainpc' = "wait"
    /\ saver' = [saver EXCEPT !.pc = "recv"]
    /\ ex' = [w \in Workers |-> [ex[w] EXCEPT !.pc = "recv"]]
    /\ prod' = [pc |-> "loop", k |-> 1]
    /\ UNCHANGED <<unusedVars, saveChan, saveClosed, chanVars, disk,
                   processedCount, rgba, rgbaPool, hist>>

\* jobs <- RenderJob{sIdx, bIdx, c1Idx, c2Idx} (part_000:137)
T_Produce ==
    /\ prod.pc = "loop"
    /\ prod.k <= Len(RenderJobs)
    /\ Len(jobs) < ChanCap
    /\ jobs' = Append(jobs, RenderJobs[prod.k])
    /\ prod' = [prod EXCEPT !.k = @ + 1]
    /\ UNCHANGED <<unusedVars, pipeVars, closed, disk, mainpc, total,
                   processedCount, ex, rgba, rgbaPool, hist>>

\* close(jobs) (part_000:142)
T_CloseJobs ==
    /\ prod.pc = "loop"
    /\ prod.k > Len(RenderJobs)
    /\ closed' = TRUE
    /\ prod' = [prod EXCEPT !.pc = "done"]
    /\ UNCHANGED <<unusedVars, pipeVars, jobs, disk, mainpc, total,
                   processedCount, ex, rgba, rgbaPool, hist>>

\* for j := range jobs: a job is received (part_000:114)
R_Recv(w) ==
    /\ ex[w].pc = "recv"
    /\ jobs # <<>>
    /\ ex' = [ex EXCEPT ![w] = [@ EXCEPT !.pc = "stat", !.job = Head(jobs)]]
    /\ jobs' = Tail(jobs)
    /\ UNCHANGED <<unusedVars, pipeVars, closed, disk, mainpc, total,
                   processedCount, prod, rgba, rgbaPool, hist>>

\* jobs is closed and drained: the loop ends, renderWG.Done()
\* (part_000:113-114)
R_Exit(w) ==
    /\ ex[w].pc = "recv"
    /\ jobs = <<>>
    /\ closed
    /\ ex' = [ex EXCEPT ![w] = [@ EXCEPT !.pc = "exited"]]
    /\ UNCHANGED <<unusedVars, pipeVars, chanVars, disk, mainpc, total,
                   processedCount, prod, rgba, rgbaPool, hist>>

\* the output is there: count it and go on (part_000:116-119)
R_Skip(w) ==
    /\ ex[w].pc = "stat"
    /\ Stat(JoinOutput(FName(ex[w].job)))
    /\ processedCount' = processedCount + 1
    /\ ex' = [ex EXCEPT ![w] = [@ EXCEPT !.pc = "recv"]]
    /\ hist' = [hist EXCEPT !.skipped = Bump(@, FName(ex[w].job))]
    /\ UNCHANGED <<unusedVars, pipeVars, chanVars, disk, mainpc, total, prod,
                   rgba, rgbaPool>>

\* img := renderFast(j): a canvas from the pool or a new one, cleared and
\* drawn (part_000:120, 244-262)
R_Render(w) ==
    /\ ex[w].pc = "stat"
    /\ ~Stat(JoinOutput(FName(ex[w].job)))
    /\ \/ \E id \in Pooled(rgbaPool, rgba) :
            /\ rgba' = [rgba EXCEPT ![id] = renderFast(@, ex[w].job)]
            /\ rgbaPool' = rgbaPool \ {id}
            /\ ex' = [ex EXCEPT ![w] = [@ EXCEPT !.pc = "send", !.dst = id]]
       \/ LET live == Dropped(rgbaPool, rgba)
               id == FreshId(live)
           IN  /\ rgba' = live @@ (id :> renderFast(NewRGBA, ex[w].job))
               /\ rgbaPool' = {}
               /\ ex' = [ex EXCEPT ![w] = [@ EXCEPT !.pc = "send", !.dst = id]]
    /\ hist' = [hist EXCEPT !.gets = @ + 1]
    /\ UNCHANGED <<unusedVars, pipeVars, chanVars, disk, mainpc, total,
                   processedCount, prod>>

\* after the send the worker's img is dead: the next iteration declares a
\* new one (part_000:120-122)
Handover(id) == NoBuf

\* saveChan <- SaveJob{fname, img, getColor(j.C1Idx), getColor(j.C2Idx)}
\* (part_000:121); a send on a closed channel panics
R_Send(w) ==
    /\ ex[w].pc = "send"
    /\ IF saveClosed
       THEN /\ mainpc' = "panic"
            /\ UNCHANGED <<saveChan, ex, hist>>
       ELSE /\ Len(saveChan) < ChanCap
            /\ saveChan' = Append(saveChan,
                   [FileName |-> FName(ex[w].job), Img |-> ex[w].dst,
                    C1 |-> getColor(ex[w].job.C1Idx),
                    C2 |-> getColor(ex[w].job.C2Idx)])
            /\ ex' = [ex EXCEPT ![w] = [@ EXCEPT !.pc = "recv",
                                                 !.dst = Handover(@)]]
            /\ hist' = [hist EXCEPT !.sends = @ + 1,
                                    !.sent = Bump(@, FName(ex[w].job))]
            /\ UNCHANGED mainpc
    /\ UNCHANGED <<unusedVars, saveClosed, saver, chanVars, disk, total,
                   processedCount, prod, rgba, rgbaPool>>

\* for job := range saveChan: a canvas is received (part_000:100)
V_Recv ==
    /\ saver.pc = "recv"
    /\ saveChan # <<>>
    /\ saver' = [pc |-> "save", job |-> Head(saveChan)]
    /\ saveChan' = Tail(saveChan)
    /\ hist' = [hist EXCEPT !.recvs = @ + 1]
    /\ UNCHANGED <<unusedVars, saveClosed, chanVars, disk, mainpc, total,
                   processedCount, prod, ex, rgba, rgbaPool>>

\* saveChan is closed and drained: saveWG.Done() (part_000:99-100)
V_Exit ==
    /\ saver.pc = "recv"
    /\ saveChan = <<>>
    /\ saveClosed
    /\ saver' = [saver EXCEPT !.pc = "exited"]
    /\ UNCHANGED <<unusedVars, saveChan, saveClosed, chanVars, disk, mainpc,
                   total, processedCount, prod, ex, rgba, rgbaPool, hist>>

\* saveWithMinimalPalette(job, false) writes the image (part_000:101, 152-172)
V_SaveOk ==
    /\ saver.pc = "save"
    /\ ~IsDirAt(JoinOutput(saver.job.FileName))
    /\ disk' = Put(disk, JoinOutput(saver.job.FileName),
                   Entry("file", "png",
                         saveWithMinimalPalette(rgba[saver.job.Img],
                                                saver.job.C1, saver.job.C2)))
    /\ saver' = [saver EXCEPT !.pc = "count"]
    /\ hist' = [hist EXCEPT !.saved = Bump(@, saver.job.FileName)]
    /\ UNCHANGED <<unusedVars, saveChan, saveClosed, chanVars, mainpc, total,
                   processedCount, prod, ex, rgba, rgbaPool>>

\* os.Create or enc.Encode fails; both errors are dropped and the saver goes
\* on (part_000:167-171): no file, or a file cut short
V_SaveFail ==
    /\ saver.pc = "save"
    /\ hist.failures < MaxFailures
    /\ \/ disk' = disk
       \/ /\ ~IsDirAt(JoinOutput(saver.job.FileName))
          /\ disk' = Put(disk, JoinOutput(saver.job.FileName),
                         Entry("file", "partial", NoImage))
    /\ saver' = [saver EXCEPT !.pc = "count"]
    /\ hist' = [hist EXCEPT !.saved = Bump(@, saver.job.FileName),
                            !.failures = @ + 1]
    /\ UNCHANGED <<unusedVars, saveChan, saveClosed, chanVars, mainpc, total,
                   processedCount, prod, ex, rgba, rgbaPool>>

\* curr := atomic.AddInt64(&processedCount, 1) (part_000:102)
V_Count ==
    /\ saver.pc = "count"
    /\ processedCount' = processedCount + 1
    /\ saver' = [saver EXCEPT !.pc = "put"]
    /\ UNCHANGED <<unusedVars, saveChan, saveClosed, chanVars, disk, mainpc,
                   total, prod, ex, rgba, rgbaPool, hist>>

\* rgbaPool.Put(job.Img) (part_000:106)
V_Put ==
    /\ saver.pc = "put"
    /\ rgbaPool' = PoolPut(rgbaPool, saver.job.Img)
    /\ saver' = [pc |-> "recv", job |-> SaveJob0]
    /\ hist' = [hist EXCEPT !.puts = @ + 1]
    /\ UNCHANGED <<unusedVars, saveChan, saveClosed, chanVars, disk, mainpc,
                   total, processedCount, prod, ex, rgba>>

\* faulty variant of RenderersExited: main does not wait
WaitForNone == TRUE

\* renderWG.Wait() returns (part_000:145)
RenderersExited == \A w \in Workers : ex[w].pc = "exited"

\* close(saveChan) (part_000:145-146)
T_CloseSave ==
    /\ mainpc = "wait"
    /\ RenderersExited
    /\ saveClosed' = TRUE
    /\ mainpc' = "waitsave"
    /\ UNCHANGED <<unusedVars, saveChan, saver, chanVars, disk, total,
                   processedCount, prod, ex, rgba, rgbaPool, hist>>

\* saveWG.Wait() returns (part_000:147-149)
T_Done ==
    /\ mainpc = "waitsave"
    /\ saver.pc = "exited"
    /\ mainpc' = "done"
    /\ UNCHANGED <<unusedVars, pipeVars, chanVars, disk, total,
                   processedCount, prod, ex, rgba, rgbaPool, hist>>

PipeNext ==
    \/ T_Empty \/ T_Spawn \/ T_Produce \/ T_CloseJobs \/ T_CloseSave \/ T_Done
    \/ \E w \in Workers : R_Recv(w)
    \/ \E w \in Workers : R_Exit(w)
    \/ \E w \in Workers : R_Skip(w)
    \/ \E w \in Workers : R_Render(w)
    \/ \E w \in Workers : R_Send(w)
    \/ V_Recv \/ V_Exit \/ V_SaveOk \/ V_SaveFail \/ V_Count \/ V_Put

PipeSpec == PipeInit /\ [][PipeNext]_vars

\* as FairSpec: the program does not stand still while a goroutine can step
PipeFair == PipeSpec /\ WF_vars(PipeNext)

\* the canvases on their way from a render worker to the pool
InFlight ==
    [i \in 1..Len(saveChan) |-> saveChan[i]]
        \o (IF saver.pc \in {"save", "count", "put"} THEN <<saver.job>> ELSE <<>>)

\* the workers holding a canvas
Holding == { w \in Workers : ex[w].dst # NoBuf }

\* every canvas is in one place only: with a worker, on its way, or pooled
OneOwner ==
    Cardinality({ ex[w].dst : w \in Holding }
                    \cup { InFlight[i].Img : i \in DOMAIN InFlight }
                    \cup rgbaPool)
        = Cardinality(Holding) + Len(InFlight) + Cardinality(rgbaPool)

\* a canvas on its way still shows the job it was rendered for
Intact(q) ==
    \E k \in DOMAIN RenderJobs :
        LET j == RenderJobs[k]
        IN  /\ q.FileName = FName(j)
            /\ q.Img \in DOMAIN rgba
            /\ rgba[q.Img] = renderFast(NewRGBA, j)
            /\ q.C1 = getColor(j.C1Idx)
            /\ q.C2 = getColor(j.C2Idx)

C17_Inv ==
    /\ mainpc # "panic"
    /\ saveClosed => \A w \in Workers : ex[w].pc = "exited"
    /\ \A w \in Workers : ex[w].dst # NoBuf <=> ex[w].pc = "send"
    /\ OneOwner
    /\ \A i \in DOMAIN InFlight : Intact(InFlight[i])
    /\ hist.sends = hist.recvs + Len(saveChan)
    /\ hist.recvs = hist.puts + (IF saver.pc \in {"save", "count", "put"} THEN 1 ELSE 0)
    /\ hist.recvs = Sum(hist.saved) + (IF saver.pc = "save" THEN 1 ELSE 0)
    /\ processedCount = Sum(hist.skipped) + Sum(hist.saved)
                            - (IF saver.pc = "count" THEN 1 ELSE 0)
    /\ \A k \in DOMAIN RenderJobs :
           LET fName == FName(RenderJobs[k])
           IN  /\ Cnt(hist.sent, fName) + Cnt(hist.skipped, fName) <= 1
               /\ Cnt(hist.saved, fName) <= Cnt(hist.sent, fName)
               /\ mainpc = "done" =>
                      /\ Cnt(hist.saved, fName) + Cnt(hist.skipped, fName) = 1
                      /\ Stat(JoinOutput(fName)) \/ hist.failures > 0
                      /\ hist.failures = 0 /\ Cnt(hist.saved, fName) = 1 =>
                             disk[JoinOutput(fName)] =
                                 Entry("file", "png",
                                       saveWithMinimalPalette(
                                           renderFast(NewRGBA, RenderJobs[k]),
                                           getColor(RenderJobs[k].C1Idx),
                                           getColor(RenderJobs[k].C2Idx)))
    /\ mainpc = "done" =>
           /\ processedCount = total
           /\ total = Len(RenderJobs)
           /\ saveChan = <<>>
           /\ hist.puts = hist.sends
           /\ hist.gets = hist.sends
    /\ mainpc = "returned" => processedCount = total /\ total = 0

\* the saver's Put leaves its canvas in the pool, and only the saver's Put
\* adds to the pool
C17_Step ==
    /\ saver.pc = "put" /\ saver'.pc # "put" => saver.job.Img \in rgbaPool'
    /\ rgbaPool' \subseteq rgbaPool \cup {saver.job.Img}
    /\ rgbaPool' # rgbaPool /\ rgbaPool' \subseteq rgbaPool
           => \E w \in Workers : ex[w].pc = "stat" /\ ex'[w].pc = "send"

\* C17: in the two-stage variant saveChan is closed only once every render
\* worker has exited and no worker sends on it closed; a canvas that is sent
\* is in one place at a time, unchanged, until the saver has saved it and put
\* it back, once; the run ends under fair scheduling, and at its end
\* processedCount is total, skips and saves together.
C17_TwoStage ==
    /\ []C17_Inv
    /\ [][C17_Step]_vars
    /\ <>(mainpc \in {"done", "returned"})

\* a run has ended in which two canvases went through saveChan and a job was
\* skipped
C17_Witness ==
    /\ mainpc = "done"
    /\ hist.sends = 2
    /\ Sum(hist.skipped) = 1
    /\ hist.puts = 2

(***************************************************************************)
(* What a later run finds.                                                 *)
(***************************************************************************)
\* the file at path holds a whole image: one left by an earlier run or one
\* whose enc.Encode came back without error (main.go:213-214)
Complete(path) == disk[path].state \in {"old", "png"}

\* existingFiles as a run started on the present directory would read it
\* (main.go:88, 327-337)
LaterScan == ScanEntries(ReadDir)

\* C18 (the claim as stated): whenever the run stops, every name a later
\* run's scan of the output directory records, and so skips and counts as
\* done, is the name of a completely encoded image.
C18_SkippedMeansComplete ==
    \A fName \in LaterScan : Complete(JoinOutput(fName))

====
